---- MODULE Spec2Model ----
(***************************************************************************)
(* The git-lfs custom transfer agents of this repository:                  *)
(*   git_lfs_gcs.py  (agent "git_lfs_gcs", entry point agent())            *)
(*   lfs_gcs.py      (agent "lfs_gcs",     entry point main())             *)
(* One agent process talks to its caller over stdin/stdout.  The caller,   *)
(* the local file system and the object store are the environment.         *)
(* ConcurrentSpec runs two such processes in one working directory.        *)
(*                                                                         *)
(* Strings that the code takes apart or glues together (paths, URLs, the   *)
(* output of `git config`) are sequences of tokens; "/" and white space    *)
(* are always tokens of their own.  File contents are sequences of bytes.  *)
(***************************************************************************)
EXTENDS Integers, Sequences, FiniteSets, TLC

VARIABLES
    agent,        \* which of the two programs is running
    pc,           \* position of the process in agent()/main()
    lines,        \* the lines read from stdin so far (decoded form)
    out,          \* the lines written to stdout so far (the dicts dumped)
    outReq,       \* for each line of out: Len(lines) when it was written
    url,          \* GCSTransport.url
    clientCount,  \* how many times Client(...) has been constructed
    req,          \* the request being serviced: [event, oid, kwargs]
    files,        \* local file system: absolute path -> content
    store,        \* object store: blob uri -> content
    srcData,      \* content of the source stream opened by the operation
    srcPos,       \* number of bytes of srcData delivered by src.read so far
    dst,          \* bytes handed to dst.write so far
    srcOpen,      \* "none", "ok", or "missing" (a reader on an absent object)
    dstOpen,      \* "none", "file" (download) or "blob" (upload)
    total,        \* transfer()'s local variable total
    exc,          \* the exception travelling to the except clause
    faults,       \* how many I/O calls the environment has made fail
    exitCode,     \* exit status of the process, -1 while it runs
    other         \* the state of a second agent process that is not running
                  \* now, NoOther when there is one process only

vars == <<agent, pc, lines, out, outReq, url, clientCount, req, files, store,
          srcData, srcPos, srcOpen, dst, dstOpen, total, exc, faults, exitCode,
          other>>

----------------------------------------------------------------------------
(* Bounds of the model *)

\* longest file / object content, in bytes
MaxLen == 3
\* most lines the caller sends after the init line
MaxLines == 2
\* most I/O calls of one session that fail though their target is there
MaxFaults == 1

(* CHUNK_SIZE = 4 * MB in the source; scaled down to 2 bytes so that        *)
(* contents of MaxLen bytes are empty, shorter than, equal to and longer    *)
(* than one chunk.                                                          *)
CHUNK_SIZE == 2

(* The contents the local file may start with: every length up to MaxLen,    *)
(* the i-th byte being i, so that a byte lost, repeated or moved shows.     *)
Contents == {[i \in 1..n |-> i] : n \in 0..MaxLen}

Agents == {"git_lfs_gcs", "lfs_gcs"}

OIDS == {<<"a">>, <<"b">>}

Min(a, b) == IF a < b THEN a ELSE b

Has(m, k) == k \in DOMAIN m

Remove(f, k) == [x \in DOMAIN f \ {k} |-> f[x]]

Put(f, k, v) == [x \in DOMAIN f \cup {k} |-> IF x = k THEN v ELSE f[x]]

----------------------------------------------------------------------------
(* Strings: paths, URLs, configuration values *)

Cwd == <<"/", "repo">>

URL == <<"gs:", "/", "/", "bkt">>

WhiteSpace == {" ", "\n"}

\* bytes.strip(): drop leading and trailing white space
RECURSIVE LStrip(_)
LStrip(s) == IF s # <<>> /\ Head(s) \in WhiteSpace THEN LStrip(Tail(s)) ELSE s

RECURSIVE RStrip(_)
RStrip(s) ==
    IF s # <<>> /\ s[Len(s)] \in WhiteSpace
    THEN RStrip(SubSeq(s, 1, Len(s) - 1)) ELSE s

Strip(s) == RStrip(LStrip(s))

\* what `git config <option>` may print: nothing, an empty line, the value
ConfigOutputs == {<<>>, <<"\n">>, URL \o <<"\n">>, <<" ">> \o URL \o <<"\n">>}

\* config_option: the first non-empty stripped value of the two commands,
\* None (here the empty string, equally falsy) when both are empty
config_option(gitOut, lfsOut) ==
    IF Strip(gitOut) # <<>> THEN Strip(gitOut)
    ELSE IF Strip(lfsOut) # <<>> THEN Strip(lfsOut)
    ELSE <<>>

\* os.path.join(a, b)
join(a, b) ==
    IF b # <<>> /\ Head(b) = "/" THEN b
    ELSE IF a = <<>> \/ a[Len(a)] = "/" THEN a \o b
    ELSE a \o <<"/">> \o b

\* Path.absolute() / os.path.abspath() of a path without "." or ".." parts
Absolute(p) == IF p # <<>> /\ Head(p) = "/" THEN p ELSE join(Cwd, p)

\* Path(s) in git_lfs_gcs.py, and abspath(s) in lfs_gcs.py: a separator that
\* follows a separator is dropped
RECURSIVE Path(_)
Path(s) ==
    IF Len(s) < 2 THEN s
    ELSE IF s[1] = "/" /\ s[2] = "/" THEN Path(Tail(s))
    ELSE <<Head(s)>> \o Path(Tail(s))

\* the relative name is reported, not made absolute
download_pathRelative(oid) == Path(<<"lfs-download-">> \o oid \o <<".tmp">>)

\* f"lfs-download-{oid}.tmp", as a path, made absolute
download_path(oid) == Absolute(Path(<<"lfs-download-">> \o oid \o <<".tmp">>))

\* the local paths the caller names in upload requests
PathF == <<"f">>
PathG == <<"g">>

----------------------------------------------------------------------------
(* Lines of the protocol *)

InitLine == [event |-> "init"]

TerminateLine == [event |-> "terminate"]

DownloadLine(o) == [event |-> "download", oid |-> o, size |-> MaxLen, action |-> "null"]

UploadLine(o, p) ==
    [event |-> "upload", oid |-> o, path |-> p, size |-> MaxLen, action |-> "null"]

\* a line that is not JSON
NotJson == [notjson |-> TRUE]

\* end of input: readline() returns "" and `for line in stdin` stops
EOF == [eof |-> TRUE]

\* a download request that carries nothing but its oid
BareDownloadLine == [event |-> "download", oid |-> <<"a">>]

\* a request without oid, one without event, one naming no operation
NoOidLine == [event |-> "download", size |-> MaxLen]
NoEventLine == [oid |-> <<"a">>, size |-> MaxLen]
UnknownLine == [event |-> "client", oid |-> <<"a">>]

\* a request whose event names nothing the transport object has
NoSuchEventLine == [event |-> "copy", oid |-> <<"b">>]

\* a download request with a field no operation knows, and an upload request
\* without the action field
ExtraFieldLine ==
    [event |-> "download", oid |-> <<"a">>, size |-> MaxLen, action |-> "null",
     extra |-> 1]
NoActionLine == [event |-> "upload", oid |-> <<"a">>, path |-> PathF, size |-> MaxLen]

FirstLines == {InitLine, TerminateLine, NoEventLine, NotJson, EOF}

RequestLines ==
    {DownloadLine(o) : o \in OIDS}
    \cup {UploadLine(o, PathF) : o \in OIDS}
    \cup {UploadLine(<<"a">>, PathG)}
    \cup {BareDownloadLine, ExtraFieldLine, NoActionLine}
    \cup {TerminateLine, NotJson, NoOidLine, NoEventLine, UnknownLine}
    \cup {NoSuchEventLine}

\* json.loads succeeds on the line
Decodes(line) == ~Has(line, "notjson") /\ ~Has(line, "eof")

\* the dict left after request.pop("event") and request.pop("oid")
Kwargs(line) == [k \in DOMAIN line \ {"event", "oid"} |-> line[k]]

NoReq == <<>>

NoOther == <<>>

(* Outbound messages *)

Ack == <<>>

\* bytesSinceLast reports the running total
ProgressSinceIsTotal(oid, soFar, n) ==
    [event |-> "progress", oid |-> oid, bytesSoFar |-> soFar, bytesSinceLast |-> soFar]

Progress(oid, soFar, n) ==
    [event |-> "progress", oid |-> oid, bytesSoFar |-> soFar, bytesSinceLast |-> n]

\* the path is left out of a download's complete event
CompleteDownloadNoPath(oid, path) == [event |-> "complete", oid |-> oid]

CompleteDownload(oid, path) == [event |-> "complete", oid |-> oid, path |-> path]

CompleteUpload(oid) == [event |-> "complete", oid |-> oid]

CompleteError(oid, message) ==
    [event |-> "complete", oid |-> oid, error |-> [code |-> 2, message |-> message]]

IsProgress(m) == Has(m, "event") /\ m.event = "progress"
IsComplete(m) == Has(m, "event") /\ m.event = "complete"
IsError(m) == IsComplete(m) /\ Has(m, "error")

----------------------------------------------------------------------------
(* The process *)

Init ==
    /\ agent \in Agents
    /\ pc = "start"
    /\ lines = <<>>
    /\ out = <<>>
    /\ outReq = <<>>
    /\ url = <<>>
    /\ clientCount = 0
    /\ req = NoReq
    /\ files \in {[p \in {Absolute(PathF)} |-> c] : c \in Contents}
    /\ store = <<>>
    /\ srcData = <<>>
    /\ srcPos = 0
    /\ srcOpen = "none"
    /\ dst = <<>>
    /\ dstOpen = "none"
    /\ total = 0
    /\ exc = ""
    /\ faults = 0
    /\ exitCode = -1
    /\ other = NoOther

opVars == <<srcData, srcPos, srcOpen, dst, dstOpen, total>>
ioVars == <<files, store>>
envVars == <<files, store, faults>>

\* an uncaught exception leaves agent()/main(): the interpreter exits with 1
Crash ==
    /\ pc' = "crashed"
    /\ exitCode' = 1

\* agent()/main() returns None and exit(None) ends the process with 0
Return ==
    /\ pc' = "done"
    /\ exitCode' = 0

\* respond(message): print(dumps(message), flush=True)
respond(message) ==
    /\ out' = Append(out, message)
    /\ outReq' = Append(outReq, Len(lines))

\* GCSTransport.client without @cache: a client per call
clientUncached(count) == count + 1

\* GCSTransport.client under @cache: constructed on the first call only
client(count) == IF count = 0 THEN 1 ELSE count

(* if "GIT_LFS_GCS_LOG" in environ: basicConfig(filename=environ["LFS_GCS_LOG"]) *)
(* in git_lfs_gcs.py; lfs_gcs.py tests and reads the same name LFS_GCS_LOG.       *)
ConfigureLogging ==
    /\ pc = "start"
    /\ \E gitLfsGcsLog \in BOOLEAN, lfsGcsLog \in BOOLEAN :
         LET tested == IF agent = "git_lfs_gcs" THEN gitLfsGcsLog ELSE lfsGcsLog
         IN  IF tested /\ ~lfsGcsLog
             THEN Crash    \* KeyError: 'LFS_GCS_LOG'
             ELSE pc' = "handshake" /\ exitCode' = exitCode
    /\ UNCHANGED <<other, agent, lines, out, outReq, url, clientCount, req, exc>>
    /\ UNCHANGED <<opVars, envVars>>

\* the assert on the first line's event is missing
ReadInitNoAssert ==
    /\ pc = "handshake"
    /\ \E line \in FirstLines :
         /\ lines' = IF line = EOF THEN lines ELSE Append(lines, line)
         /\ IF ~Decodes(line) THEN Crash
            ELSE pc' = "create" /\ exitCode' = exitCode
    /\ UNCHANGED <<other, agent, out, outReq, url, clientCount, req, exc>>
    /\ UNCHANGED <<opVars, envVars>>

(* first_request = loads(stdin.readline()); assert first_request["event"] == "init" *)
ReadInit ==
    /\ pc = "handshake"
    /\ \E line \in FirstLines :
         /\ lines' = IF line = EOF THEN lines ELSE Append(lines, line)
         /\ IF ~Decodes(line) THEN Crash                 \* JSONDecodeError
            ELSE IF ~Has(line, "event") THEN Crash       \* KeyError
            ELSE IF line.event # "init" THEN Crash       \* AssertionError
            ELSE pc' = "create" /\ exitCode' = exitCode
    /\ UNCHANGED <<other, agent, out, outReq, url, clientCount, req, exc>>
    /\ UNCHANGED <<opVars, envVars>>

(* client = GCSTransport.create(); lfs_gcs.py also reads lfs-gcs.project,    *)
(* which may be unset                                                        *)
create ==
    /\ pc = "create"
    /\ \E gitOut \in ConfigOutputs, lfsOut \in ConfigOutputs :
         LET value == config_option(gitOut, lfsOut)
         IN  IF value = <<>>
             THEN Crash /\ url' = url     \* RuntimeError("LFS url must be set")
             ELSE pc' = "ack" /\ exitCode' = exitCode /\ url' = value
    /\ UNCHANGED <<other, agent, lines, out, outReq, clientCount, req, exc>>
    /\ UNCHANGED <<opVars, envVars>>

(* respond({}) in git_lfs_gcs.py, print({}, flush=True) in lfs_gcs.py: both "{}" *)
Acknowledge ==
    /\ pc = "ack"
    /\ respond(Ack)
    /\ pc' = "loop"
    /\ UNCHANGED <<other, agent, lines, url, clientCount, req, exc, exitCode>>
    /\ UNCHANGED <<opVars, envVars>>

\* the terminate event does not leave the loop
ReadLineNoBreak ==
    /\ pc = "loop"
    /\ \E line \in RequestLines \cup {EOF} :
         /\ line # EOF => Len(lines) < MaxLines + 1
         /\ lines' = IF line = EOF THEN lines ELSE Append(lines, line)
         /\ IF line = EOF THEN Return /\ req' = req
            ELSE IF ~Decodes(line) THEN Crash /\ req' = req
            ELSE IF ~Has(line, "event") THEN Crash /\ req' = req
            ELSE IF ~Has(line, "oid") THEN Crash /\ req' = req
            ELSE /\ pc' = "dispatch"
                 /\ exitCode' = exitCode
                 /\ req' = [event |-> line.event, oid |-> line.oid,
                            kwargs |-> Kwargs(line)]
    /\ UNCHANGED <<other, agent, out, outReq, url, clientCount, exc>>
    /\ UNCHANGED <<opVars, envVars>>

(* for request in (loads(line) for line in stdin): pop event, break on     *)
(* terminate, pop oid                                                       *)
ReadLine ==
    /\ pc = "loop"
    /\ \E line \in RequestLines \cup {EOF} :
         /\ line # EOF => Len(lines) < MaxLines + 1
         /\ lines' = IF line = EOF THEN lines ELSE Append(lines, line)
         /\ IF line = EOF THEN Return /\ req' = req
            ELSE IF ~Decodes(line) THEN Crash /\ req' = req        \* JSONDecodeError
            ELSE IF ~Has(line, "event") THEN Crash /\ req' = req   \* KeyError 'event'
            ELSE IF line.event = "terminate" THEN Return /\ req' = req
            ELSE IF ~Has(line, "oid") THEN Crash /\ req' = req     \* KeyError 'oid'
            ELSE /\ pc' = "dispatch"
                 /\ exitCode' = exitCode
                 /\ req' = [event |-> line.event, oid |-> line.oid,
                            kwargs |-> Kwargs(line)]
    /\ UNCHANGED <<other, agent, out, outReq, url, clientCount, exc>>
    /\ UNCHANGED <<opVars, envVars>>

ResetOp ==
    /\ srcData' = <<>>
    /\ srcPos' = 0
    /\ srcOpen' = "none"
    /\ dst' = <<>>
    /\ dstOpen' = "none"
    /\ total' = 0

\* raise: the exception leaves the generator towards agent()'s except clause
Raise(e) ==
    /\ pc' = "except"
    /\ exc' = e
    /\ faults' = faults

\* an I/O call fails though its target is there: the same, counted
Fault(e) ==
    /\ faults < MaxFaults
    /\ pc' = "except"
    /\ exc' = e
    /\ faults' = faults + 1

(* the keyword arguments the operation's signature accepts:                 *)
(*   git_lfs_gcs.py  download(self, oid, size, action=None)                 *)
(*                   upload(self, oid, path, size, action=None)             *)
(*   lfs_gcs.py      download(self, oid, **_)                               *)
(*                   upload(self, oid, path, size, action)                  *)
Binds(a, event, keys) ==
    IF a = "git_lfs_gcs"
    THEN IF event = "download"
         THEN {"size"} \subseteq keys /\ keys \subseteq {"size", "action"}
         ELSE {"path", "size"} \subseteq keys /\ keys \subseteq {"path", "size", "action"}
    ELSE IF event = "download"
         THEN TRUE
         ELSE keys = {"path", "size", "action"}

\* what else getattr finds on the transport object: none of it can be called
\* with oid=...
OtherAttributes == {"client", "create", "url"}

\* an event naming an attribute of the transport object is looked up and
\* called without arguments: "client" constructs the backend client
DispatchReflective ==
    /\ pc = "dispatch"
    /\ IF req.event \notin {"download", "upload"}
       THEN /\ Raise(IF req.event \in OtherAttributes
                     THEN "TypeError" ELSE "AttributeError")
            /\ clientCount' = IF req.event = "client"
                              THEN client(clientCount) ELSE clientCount
       ELSE /\ clientCount' = clientCount
            /\ IF ~Binds(agent, req.event, DOMAIN req.kwargs)
               THEN Raise("TypeError")
               ELSE pc' = "open" /\ exc' = exc /\ faults' = faults
    /\ UNCHANGED <<other, agent, lines, out, outReq, url, req, exitCode>>
    /\ UNCHANGED <<opVars, ioVars>>

(* getattr(client, event)(oid=oid, **request): the attribute lookup and the *)
(* call, both inside the try                                                *)
Dispatch ==
    /\ pc = "dispatch"
    /\ IF req.event \notin {"download", "upload"}
       THEN Raise(IF req.event \in OtherAttributes
                  THEN "TypeError" ELSE "AttributeError")
       ELSE IF ~Binds(agent, req.event, DOMAIN req.kwargs)
       THEN Raise("TypeError")
       ELSE pc' = "open" /\ exc' = exc /\ faults' = faults
    /\ UNCHANGED <<other, agent, lines, out, outReq, url, clientCount, req, exitCode>>
    /\ UNCHANGED <<opVars, ioVars>>

\* the cleanup removes every file of the working directory
CleanupAll(a, fs, path) == IF a = "git_lfs_gcs" THEN <<>> ELSE fs

(* open_auto_cleanup's except clause in git_lfs_gcs.py: file_path.unlink();  *)
(* lfs_gcs.py opens the destination with a plain open() and removes nothing *)
Cleanup(a, fs, path) == IF a = "git_lfs_gcs" THEN Remove(fs, path) ELSE fs

(* download: with Blob.from_uri(...).open("rb") as src:                     *)
(*               with open_auto_cleanup(download_path) as dst:              *)
OpenDownload ==
    /\ pc = "open"
    /\ req.event = "download"
    /\ LET file_uri == join(url, req.oid)
           path == download_path(req.oid)
       IN
       \/ \* Client(project=...) raises
          /\ clientCount = 0
          /\ Fault("DefaultCredentialsError")
          /\ UNCHANGED <<clientCount, files, opVars>>
       \/ \* opening the blob reader raises
          /\ clientCount' = client(clientCount)
          /\ Fault("BlobOpenError")
          /\ UNCHANGED <<files, opVars>>
       \/ \* opening the destination file raises
          /\ clientCount' = client(clientCount)
          /\ IF agent = "git_lfs_gcs" /\ path \notin DOMAIN files
             THEN Fault("FileNotFoundError")   \* raised by unlink()
             ELSE Fault("OSError")
          /\ files' = Cleanup(agent, files, path)
          /\ UNCHANGED opVars
       \/ \* both streams are open; the file is created or truncated
          /\ clientCount' = client(clientCount)
          /\ srcOpen' = IF file_uri \in DOMAIN store THEN "ok" ELSE "missing"
          /\ srcData' = IF file_uri \in DOMAIN store THEN store[file_uri] ELSE <<>>
          /\ srcPos' = 0
          /\ dstOpen' = "file"
          /\ dst' = <<>>
          /\ total' = 0
          /\ files' = Put(files, path, <<>>)
          /\ pc' = "transfer"
          /\ exc' = exc
          /\ faults' = faults
    /\ UNCHANGED <<other, agent, lines, out, outReq, url, req, store, exitCode>>

\* the blob writer is opened before the local file
OpenUploadBlobFirst ==
    /\ pc = "open"
    /\ req.event = "upload"
    /\ LET path == Absolute(req.kwargs.path)
       IN
       \/ /\ clientCount = 0
          /\ Fault("DefaultCredentialsError")
          /\ UNCHANGED <<clientCount, opVars>>
       \/ /\ clientCount' = client(clientCount)
          /\ Fault("BlobOpenError")
          /\ UNCHANGED opVars
       \/ /\ path \notin DOMAIN files
          /\ clientCount' = client(clientCount)
          /\ Raise("FileNotFoundError")
          /\ UNCHANGED opVars
       \/ /\ path \in DOMAIN files
          /\ clientCount' = client(clientCount)
          /\ Fault("PermissionError")
          /\ UNCHANGED opVars
       \/ /\ path \in DOMAIN files
          /\ clientCount' = client(clientCount)
          /\ srcOpen' = "ok"
          /\ srcData' = files[path]
          /\ srcPos' = 0
          /\ dstOpen' = "blob"
          /\ dst' = <<>>
          /\ total' = 0
          /\ pc' = "transfer"
          /\ exc' = exc
          /\ faults' = faults
    /\ UNCHANGED <<other, agent, lines, out, outReq, url, req, files, store, exitCode>>

(* upload: with open(path, "rb") as src:                                    *)
(*             with Blob.from_uri(...).open("wb") as dst:                   *)
OpenUpload ==
    /\ pc = "open"
    /\ req.event = "upload"
    /\ LET path == Absolute(req.kwargs.path)
       IN
       \/ \* open(path, "rb") raises: no such file
          /\ path \notin DOMAIN files
          /\ Raise("FileNotFoundError")
          /\ UNCHANGED <<clientCount, opVars>>
       \/ \* open(path, "rb") raises: the file cannot be read
          /\ path \in DOMAIN files
          /\ Fault("PermissionError")
          /\ UNCHANGED <<clientCount, opVars>>
       \/ \* Client(project=...) raises
          /\ path \in DOMAIN files
          /\ clientCount = 0
          /\ Fault("DefaultCredentialsError")
          /\ UNCHANGED <<clientCount, opVars>>
       \/ \* opening the blob writer raises
          /\ path \in DOMAIN files
          /\ clientCount' = client(clientCount)
          /\ Fault("BlobOpenError")
          /\ UNCHANGED opVars
       \/ \* both streams are open
          /\ path \in DOMAIN files
          /\ clientCount' = client(clientCount)
          /\ srcOpen' = "ok"
          /\ srcData' = files[path]
          /\ srcPos' = 0
          /\ dstOpen' = "blob"
          /\ dst' = <<>>
          /\ total' = 0
          /\ pc' = "transfer"
          /\ exc' = exc
          /\ faults' = faults
    /\ UNCHANGED <<other, agent, lines, out, outReq, url, req, files, store, exitCode>>

(* the sizes src.read(CHUNK_SIZE) may return when `remaining` > 0 bytes are  *)
(* left.  An upload reads a local file through open(path, "rb"): a buffered  *)
(* reader, which returns CHUNK_SIZE bytes unless the file ends.  A download  *)
(* reads the backend's stream, of which only the contract of read is known:  *)
(* at least one byte before the end of the stream, at most CHUNK_SIZE.       *)
ReadSizes(event, remaining) ==
    IF event = "upload"
    THEN {Min(CHUNK_SIZE, remaining)} \ {0}
    ELSE 1..Min(CHUNK_SIZE, remaining)

(* leaving the `with` blocks on an exception.  A download's destination is   *)
(* closed and, in git_lfs_gcs.py, unlinked.  An upload's blob writer is      *)
(* closed as well: whether that stores the bytes written so far depends on   *)
(* the backend.                                                              *)
Unwind ==
    IF req.event = "download"
    THEN /\ files' = Cleanup(agent, files, download_path(req.oid))
         /\ store' = store
    ELSE /\ files' = files
         /\ store' \in {store, Put(store, join(url, req.oid), dst)}

\* only the first response of the generator is consumed before the next line
WriteChunkAbandon(n) ==
    LET chunk == SubSeq(srcData, srcPos + 1, srcPos + n)
    IN  /\ srcPos' = srcPos + n
        /\ dst' = dst \o chunk
        /\ total' = total + Len(chunk)
        /\ respond(Progress(req.oid, total', Len(chunk)))
        /\ files' = IF req.event = "download"
                    THEN Put(files, download_path(req.oid), dst')
                    ELSE files
        /\ pc' = "loop"
        /\ UNCHANGED <<exc, faults, srcData, srcOpen, dstOpen, store>>

\* total = len(chunk) instead of total += len(chunk)
WriteChunkTotalReset(n) ==
    LET chunk == SubSeq(srcData, srcPos + 1, srcPos + n)
    IN  /\ srcPos' = srcPos + n
        /\ dst' = dst \o chunk
        /\ total' = Len(chunk)
        /\ respond(Progress(req.oid, total', Len(chunk)))
        /\ files' = IF req.event = "download"
                    THEN Put(files, download_path(req.oid), dst')
                    ELSE files
        /\ pc' = "transfer"
        /\ UNCHANGED <<exc, faults, srcData, srcOpen, dstOpen, store>>

\* a read shorter than CHUNK_SIZE is taken for the end of the stream
WriteChunkShortReadEnds(n) ==
    LET chunk == SubSeq(srcData, srcPos + 1, srcPos + n)
    IN  /\ srcPos' = srcPos + n
        /\ dst' = dst \o chunk
        /\ total' = total + Len(chunk)
        /\ respond(Progress(req.oid, total', Len(chunk)))
        /\ files' = IF req.event = "download"
                    THEN Put(files, download_path(req.oid), dst')
                    ELSE files
        /\ pc' = IF n < CHUNK_SIZE THEN "close" ELSE "transfer"
        /\ UNCHANGED <<exc, faults, srcData, srcOpen, dstOpen, store>>

\* the chunk is reported but not written
WriteChunkSkipped(n) ==
    LET chunk == SubSeq(srcData, srcPos + 1, srcPos + n)
    IN  /\ srcPos' = srcPos + n
        /\ dst' = dst
        /\ total' = total + Len(chunk)
        /\ respond(Progress(req.oid, total', Len(chunk)))
        /\ files' = IF req.event = "download"
                    THEN Put(files, download_path(req.oid), dst')
                    ELSE files
        /\ pc' = "transfer"
        /\ UNCHANGED <<exc, faults, srcData, srcOpen, dstOpen, store>>

(* transfer's loop body for a chunk of n bytes that dst.write accepts:       *)
(*   dst.write(chunk); total += len(chunk); yield {progress}                 *)
(* and agent()'s respond(response) for the event yielded                     *)
WriteChunk(n) ==
    LET chunk == SubSeq(srcData, srcPos + 1, srcPos + n)
    IN  /\ srcPos' = srcPos + n
        /\ dst' = dst \o chunk
        /\ total' = total + Len(chunk)
        /\ respond(Progress(req.oid, total', Len(chunk)))
        /\ files' = IF req.event = "download"
                    THEN Put(files, download_path(req.oid), dst')
                    ELSE files
        /\ pc' = "transfer"
        /\ UNCHANGED <<exc, faults, srcData, srcOpen, dstOpen, store>>

\* an empty read is taken for a stream that has no data yet: read again
transferRetry ==
    /\ pc = "transfer"
    /\ \/ /\ IF srcOpen = "missing" THEN Raise("NotFound") ELSE Fault("ReadError")
          /\ Unwind
          /\ UNCHANGED <<out, outReq, opVars>>
       \/ /\ srcOpen = "ok"
          /\ srcPos = Len(srcData)
          /\ pc' = "transfer"
          /\ UNCHANGED <<out, outReq, exc, opVars, envVars>>
       \/ /\ srcOpen = "ok"
          /\ \E n \in ReadSizes(req.event, Len(srcData) - srcPos) :
               \/ /\ Fault("WriteError")
                  /\ Unwind
                  /\ srcPos' = srcPos + n
                  /\ UNCHANGED <<out, outReq, srcData, srcOpen, dst, dstOpen, total>>
               \/ WriteChunk(n)
    /\ UNCHANGED <<other, agent, lines, url, clientCount, req, exitCode>>

(* transfer(oid, src, dst): one turn of                                      *)
(*   for chunk in iter(lambda: src.read(CHUNK_SIZE), b""):                   *)
transfer ==
    /\ pc = "transfer"
    /\ \/ \* src.read raises (always so for a reader on an absent object)
          /\ IF srcOpen = "missing" THEN Raise("NotFound") ELSE Fault("ReadError")
          /\ Unwind
          /\ UNCHANGED <<out, outReq, opVars>>
       \/ \* src.read returns b"": the loop ends
          /\ srcOpen = "ok"
          /\ srcPos = Len(srcData)
          /\ pc' = "close"
          /\ UNCHANGED <<out, outReq, exc, opVars, envVars>>
       \/ \* src.read returns a chunk
          /\ srcOpen = "ok"
          /\ \E n \in ReadSizes(req.event, Len(srcData) - srcPos) :
               \/ \* dst.write raises
                  /\ Fault("WriteError")
                  /\ Unwind
                  /\ srcPos' = srcPos + n
                  /\ UNCHANGED <<out, outReq, srcData, srcOpen, dst, dstOpen, total>>
               \/ WriteChunk(n)
    /\ UNCHANGED <<other, agent, lines, url, clientCount, req, exitCode>>

(* download after transfer: both `with` blocks are left, then               *)
(*   yield {"event": "complete", "oid": oid, "path": str(download_path)}     *)
CloseDownload ==
    /\ pc = "close"
    /\ req.event = "download"
    /\ \/ \* closing the destination file raises
          /\ Fault("CloseError")
          /\ files' = Cleanup(agent, files, download_path(req.oid))
          /\ UNCHANGED <<out, outReq, req, opVars>>
       \/ \* the destination is closed; closing the blob reader raises
          /\ Fault("CloseError")
          /\ UNCHANGED <<out, outReq, req, files, opVars>>
       \/ /\ respond(CompleteDownload(req.oid, download_path(req.oid)))
          /\ pc' = "loop"
          /\ req' = NoReq
          /\ ResetOp
          /\ UNCHANGED <<exc, faults, files>>
    /\ UNCHANGED <<other, agent, lines, url, clientCount, store, exitCode>>

(* upload after transfer: both `with` blocks are left, then                 *)
(*   yield {"event": "complete", "oid": oid}                                 *)
CloseUpload ==
    /\ pc = "close"
    /\ req.event = "upload"
    /\ \/ \* closing the blob writer raises: nothing is stored
          /\ Fault("CloseError")
          /\ UNCHANGED <<out, outReq, req, store, opVars>>
       \/ \* the object is stored; closing the local file raises
          /\ Fault("CloseError")
          /\ store' = Put(store, join(url, req.oid), dst)
          /\ UNCHANGED <<out, outReq, req, opVars>>
       \/ /\ store' = Put(store, join(url, req.oid), dst)
          /\ respond(CompleteUpload(req.oid))
          /\ pc' = "loop"
          /\ req' = NoReq
          /\ ResetOp
          /\ UNCHANGED <<exc, faults>>
    /\ UNCHANGED <<other, agent, lines, url, clientCount, files, exitCode>>

\* the except clause logs the failure and raises it again
HandleExceptionReraise ==
    /\ pc = "except"
    /\ Crash
    /\ UNCHANGED <<other, agent, lines, out, outReq, url, clientCount, req, exc>>
    /\ UNCHANGED <<opVars, envVars>>

\* the except clause logs the failure and writes nothing
HandleExceptionSilent ==
    /\ pc = "except"
    /\ pc' = "loop"
    /\ exc' = ""
    /\ req' = NoReq
    /\ ResetOp
    /\ UNCHANGED <<other, agent, lines, out, outReq, url, clientCount, exitCode, envVars>>

(* except Exception as e: logger.exception(...);                            *)
(*   respond({"event": "complete", "oid": oid, "error": {code: 2, message}}) *)
HandleException ==
    /\ pc = "except"
    /\ respond(CompleteError(req.oid, exc))
    /\ pc' = "loop"
    /\ exc' = ""
    /\ req' = NoReq
    /\ ResetOp
    /\ UNCHANGED <<other, agent, lines, url, clientCount, exitCode, envVars>>

Next ==
    \/ ConfigureLogging
    \/ ReadInit
    \/ create
    \/ Acknowledge
    \/ ReadLine
    \/ Dispatch
    \/ OpenDownload
    \/ OpenUpload
    \/ transfer
    \/ CloseDownload
    \/ CloseUpload
    \/ HandleException

Spec == Init /\ [][Next]_vars

(* The process is sequential and every call it makes returns: as long as a   *)
(* step of the program is possible, one is taken.                            *)
FairSpec == Spec /\ WF_vars(Next)

TypeOK ==
    /\ pc \in {"start", "handshake", "create", "ack", "loop", "dispatch", "open",
               "transfer", "close", "except", "done", "crashed"}
    /\ Len(out) = Len(outReq)
    /\ clientCount \in 0..1
    /\ faults \in 0..MaxFaults
    /\ total = Len(dst)

----------------------------------------------------------------------------
----------------------------------------------------------------------------
(* Two agent processes in one working directory *)

\* what a process keeps to itself; the local files, the object store and the
\* environment's failures are shared
LocalState ==
    [agent |-> agent, pc |-> pc, lines |-> lines, out |-> out, outReq |-> outReq,
     url |-> url, clientCount |-> clientCount, req |-> req, srcData |-> srcData,
     srcPos |-> srcPos, srcOpen |-> srcOpen, dst |-> dst, dstOpen |-> dstOpen,
     total |-> total, exc |-> exc, exitCode |-> exitCode]

\* the oids the two callers may ask for: as OIDS, and two that hold separators
ConcOIDS == OIDS \cup {<<"a", "/", "b">>, <<"a", "/", "/", "b">>}

\* the object the store holds for the k-th process: bytes no other object has
Object(k) == [i \in 1..MaxLen |-> 10 * k + i]

\* agent a after the handshake, having read a download request for oid o
Started(a, o) ==
    [agent |-> a, pc |-> "dispatch", lines |-> <<InitLine, DownloadLine(o)>>,
     out |-> <<Ack>>, outReq |-> <<1>>, url |-> URL, clientCount |-> 0,
     req |-> [event |-> "download", oid |-> o, kwargs |-> Kwargs(DownloadLine(o))],
     srcData |-> <<>>, srcPos |-> 0, srcOpen |-> "none", dst |-> <<>>,
     dstOpen |-> "none", total |-> 0, exc |-> "", exitCode |-> -1]

(* Two processes, each about to service a download, of distinct oids whose   *)
(* objects are in the store.  The working directory holds no file; it holds  *)
(* the subdirectory lfs-download-a, into which the temporary paths of the    *)
(* oids with separators fall.                                                *)
ConcInit ==
    \E a1 \in Agents, a2 \in Agents, o1 \in ConcOIDS, o2 \in ConcOIDS :
        /\ o1 # o2
        /\ agent = Started(a1, o1).agent
        /\ pc = Started(a1, o1).pc
        /\ lines = Started(a1, o1).lines
        /\ out = Started(a1, o1).out
        /\ outReq = Started(a1, o1).outReq
        /\ url = Started(a1, o1).url
        /\ clientCount = Started(a1, o1).clientCount
        /\ req = Started(a1, o1).req
        /\ srcData = Started(a1, o1).srcData
        /\ srcPos = Started(a1, o1).srcPos
        /\ srcOpen = Started(a1, o1).srcOpen
        /\ dst = Started(a1, o1).dst
        /\ dstOpen = Started(a1, o1).dstOpen
        /\ total = Started(a1, o1).total
        /\ exc = Started(a1, o1).exc
        /\ exitCode = Started(a1, o1).exitCode
        /\ other = Started(a2, o2)
        /\ files = <<>>
        /\ store = [u \in {join(URL, o1), join(URL, o2)} |->
                        IF u = join(URL, o1) THEN Object(1) ELSE Object(2)]
        /\ faults = 0

\* the operating system takes the processor from one process and gives it to
\* the other, between any two steps
Switch ==
    /\ other # NoOther
    /\ other' = LocalState
    /\ agent' = other.agent
    /\ pc' = other.pc
    /\ lines' = other.lines
    /\ out' = other.out
    /\ outReq' = other.outReq
    /\ url' = other.url
    /\ clientCount' = other.clientCount
    /\ req' = other.req
    /\ srcData' = other.srcData
    /\ srcPos' = other.srcPos
    /\ srcOpen' = other.srcOpen
    /\ dst' = other.dst
    /\ dstOpen' = other.dstOpen
    /\ total' = other.total
    /\ exc' = other.exc
    /\ exitCode' = other.exitCode
    /\ UNCHANGED envVars

\* the steps of a download, taken by whichever process is running
ConcNext ==
    \/ Dispatch
    \/ OpenDownload
    \/ transfer
    \/ CloseDownload
    \/ HandleException
    \/ Switch

ConcurrentSpec == ConcInit /\ [][ConcNext]_vars

(* Reading the history *)

Last(s) == s[Len(s)]

\* line i is an upload or download request that carries an oid
Accepted(i) ==
    /\ i \in 2..Len(lines)
    /\ Has(lines[i], "event")
    /\ lines[i].event \in {"upload", "download"}
    /\ Has(lines[i], "oid")

\* line i reached the dispatch: it names an event other than terminate and
\* carries an oid
Dispatched(i) ==
    /\ i \in 2..Len(lines)
    /\ Has(lines[i], "event")
    /\ lines[i].event # "terminate"
    /\ Has(lines[i], "oid")

\* the positions in out of the events written while line i was the last read
EventsOf(i) == {j \in 1..Len(out) : outReq[j] = i}
ProgressOf(i) == {j \in EventsOf(i) : IsProgress(out[j])}
CompletesOf(i) == {j \in EventsOf(i) : IsComplete(out[j])}

\* the agent has finished with line i
Finished(i) == i < Len(lines) \/ pc \in {"loop", "done", "crashed"}

\* the agent has just written the complete event of the request it read last
JustCompleted ==
    /\ pc = "loop"
    /\ Accepted(Len(lines))
    /\ out # <<>>
    /\ IsComplete(Last(out))
    /\ Last(outReq) = Len(lines)

----------------------------------------------------------------------------
(* C1: every accepted upload or download request gets exactly one complete  *)
(* event: none while it is being serviced, one as soon as the agent is done  *)
(* with it, whether the operation succeeded or raised at any step, and that  *)
(* event carries the request's oid.                                          *)
C1_ExactlyOneComplete ==
    \A i \in 2..Len(lines) :
        Accepted(i) =>
            /\ Cardinality(CompletesOf(i)) = IF Finished(i) THEN 1 ELSE 0
            /\ \A j \in CompletesOf(i) : out[j].oid = lines[i].oid

\* a request that raised after two progress events has its one complete
C1_Witness ==
    /\ JustCompleted
    /\ IsError(Last(out))
    /\ Cardinality(ProgressOf(Len(lines))) >= 2
    /\ Cardinality(CompletesOf(Len(lines))) = 1

(* C2: an operation that raises is reported as a complete event for the     *)
(* request's oid with error code 2 and a message, and the session goes on:   *)
(* the process does not end while a request is unanswered, and whenever the  *)
(* agent is about to read a line, after a failure as after a success, it is  *)
(* in the same state: no request or exception pending, no stream open, the   *)
(* url set.                                                                  *)
C2_FailureReportedSessionContinues ==
    /\ \A j \in 1..Len(out) :
         IsError(out[j]) =>
            /\ out[j].error.code = 2
            /\ out[j].error.message # ""
            /\ Dispatched(outReq[j])
            /\ out[j].oid = lines[outReq[j]].oid
            /\ ~Has(out[j], "path")
    /\ pc = "except" => exc # "" /\ CompletesOf(Len(lines)) = {}
    /\ Dispatched(Len(lines)) /\ CompletesOf(Len(lines)) = {} =>
            pc \in {"dispatch", "open", "transfer", "close", "except"}
    /\ pc = "loop" =>
            /\ req = NoReq
            /\ exc = ""
            /\ exitCode = -1
            /\ url # <<>>
            /\ srcOpen = "none" /\ dstOpen = "none"
            /\ srcData = <<>> /\ srcPos = 0 /\ dst = <<>> /\ total = 0

\* a request failed, and the next request was serviced and succeeded
C2_Witness ==
    /\ JustCompleted
    /\ ~IsError(Last(out))
    /\ Len(lines) = 3
    /\ \E j \in CompletesOf(2) : IsError(out[j])

(* C3: once the acknowledgement has been written, no input line makes the   *)
(* process abort with an error.                                              *)
C3_NoAbortAfterAck == out # <<>> => pc # "crashed"

(* C4: the acknowledgement {} is the first line written, and it is written   *)
(* when exactly one line has been read, that line is an init event and a     *)
(* non-empty lfs.url has been resolved; when the first line is absent or is  *)
(* no init event, or the url is missing, the process aborts with an error,   *)
(* having written nothing and read no request.                               *)
HandshakeOk ==
    /\ lines # <<>>
    /\ Has(lines[1], "event")
    /\ lines[1].event = "init"
    /\ url # <<>>

C4_AckFirstAfterHandshake ==
    /\ out # <<>> => out[1] = Ack /\ outReq[1] = 1 /\ HandshakeOk
    /\ \A j \in 2..Len(out) : out[j] # Ack
    /\ pc \notin {"start", "handshake", "create"} /\ ~HandshakeOk =>
            /\ pc = "crashed"
            /\ exitCode = 1
            /\ out = <<>>
            /\ Len(lines) <= 1
            /\ req = NoReq

\* the acknowledgement has been written after a valid handshake
C4_Witness ==
    /\ pc = "loop"
    /\ out = <<Ack>>
    /\ lines = <<InitLine>>
    /\ url = URL

(* C5: requests are handled one at a time: when the agent reads a line, the  *)
(* complete event of every earlier request is in the output; the events      *)
(* written while a request is serviced carry that request's oid; and the     *)
(* complete event is the last event of its request, no progress after it.    *)
C5_NoPipelining ==
    /\ \A i \in 2..Len(lines) - 1 : Accepted(i) => CompletesOf(i) # {}
    /\ \A j \in 2..Len(out) :
         /\ Dispatched(outReq[j])
         /\ out[j].oid = lines[outReq[j]].oid
         /\ IsComplete(out[j]) =>
               \A k \in (j + 1)..Len(out) : outReq[k] > outReq[j]
    /\ \A j \in 1..Len(out) - 1 : outReq[j] <= outReq[j + 1]

\* two requests with progress events, one after the other
C5_Witness ==
    /\ JustCompleted
    /\ Len(lines) = 3
    /\ ProgressOf(3) # {}
    /\ ProgressOf(2) # {}
    /\ lines[2].oid # lines[3].oid

(* C6: a transfer that completes has emitted one progress event per          *)
(* non-empty read: none for an empty source, otherwise the last one has      *)
(* bytesSoFar = N; their number is at least ceil(N / CHUNK_SIZE) and at most *)
(* N, and it is ceil(N / CHUNK_SIZE) when every read but the last returned   *)
(* CHUNK_SIZE bytes.                                                         *)
Ceil(n, d) == (n + d - 1) \div d

SetMax(S) == CHOOSE x \in S : \A y \in S : y <= x

\* every read of the current transfer but the last returned a full chunk
FullReads ==
    LET P == ProgressOf(Len(lines))
    IN  \A j \in P : j # SetMax(P) => out[j].bytesSinceLast = CHUNK_SIZE

C6_OneProgressPerRead ==
    pc = "close" =>
        LET P == ProgressOf(Len(lines))
            N == Len(srcData)
        IN  /\ (P = {}) <=> (N = 0)
            /\ P # {} => out[SetMax(P)].bytesSoFar = N
            /\ Ceil(N, CHUNK_SIZE) <= Cardinality(P)
            /\ Cardinality(P) <= N
            /\ FullReads => Cardinality(P) = Ceil(N, CHUNK_SIZE)

\* a source longer than one chunk, delivered one byte per read
C6_Witness ==
    /\ pc = "close"
    /\ Len(srcData) > CHUNK_SIZE
    /\ Cardinality(ProgressOf(Len(lines))) = Len(srcData)

(* C6 as claimed: a transfer that completes has emitted exactly              *)
(* ceil(N / CHUNK_SIZE) progress events, however the source delivers its     *)
(* bytes, and the last one has bytesSoFar = N.                               *)
C6_ProgressCountIsCeil ==
    pc = "close" =>
        LET P == ProgressOf(Len(lines))
            N == Len(srcData)
        IN  /\ Cardinality(P) = Ceil(N, CHUNK_SIZE)
            /\ P # {} => out[SetMax(P)].bytesSoFar = N

(* C7: in every transfer, also one cut short by a failure, the               *)
(* bytesSinceLast values emitted so far sum to the bytesSoFar of the latest  *)
(* progress event; bytesSoFar grows strictly and every bytesSinceLast is     *)
(* between 1 and CHUNK_SIZE.                                                 *)
RECURSIVE SumSinceLast(_)
SumSinceLast(S) ==
    IF S = {} THEN 0
    ELSE LET j == SetMax(S) IN out[j].bytesSinceLast + SumSinceLast(S \ {j})

C7_SinceLastSumsToSoFar ==
    \A j \in 1..Len(out) :
        IsProgress(out[j]) =>
            LET before == {k \in ProgressOf(outReq[j]) : k < j}
            IN  /\ out[j].bytesSoFar = SumSinceLast(before \cup {j})
                /\ out[j].bytesSinceLast \in 1..CHUNK_SIZE
                /\ \A k \in before : out[k].bytesSoFar < out[j].bytesSoFar

\* a transfer fails after two chunks
C7_Witness ==
    /\ pc = "except"
    /\ Cardinality(ProgressOf(Len(lines))) >= 2

(* C8: round trip.  When a download succeeds, and an earlier request of the  *)
(* session was a successful upload of the same oid with no upload of that    *)
(* oid in between, the file at the reported path holds exactly the content   *)
(* of the uploaded local file.                                               *)
Succeeded(i) == \E j \in CompletesOf(i) : ~IsError(out[j])

C8_RoundTrip ==
    LET d == Len(lines)
    IN  (JustCompleted /\ ~IsError(Last(out)) /\ lines[d].event = "download") =>
            \A u \in 2..(d - 1) :
                ( /\ Accepted(u)
                  /\ lines[u].event = "upload"
                  /\ lines[u].oid = lines[d].oid
                  /\ Succeeded(u)
                  /\ \A w \in (u + 1)..(d - 1) :
                        ~(Accepted(w) /\ lines[w].event = "upload"
                          /\ lines[w].oid = lines[d].oid) )
                =>
                ( /\ Has(Last(out), "path")
                  /\ Last(out).path \in DOMAIN files
                  /\ files[Last(out).path] = files[Absolute(lines[u].path)] )

\* a content longer than one chunk went up and came down again
C8_Witness ==
    /\ JustCompleted
    /\ ~IsError(Last(out))
    /\ Len(lines) = 3
    /\ lines[3].event = "download"
    /\ lines[2].event = "upload"
    /\ lines[2].oid = lines[3].oid
    /\ Succeeded(2)
    /\ Len(files[Last(out).path]) > CHUNK_SIZE

(* C9: a download that fails leaves no temporary destination file on disk    *)
(* at the moment its error complete event is written, in either agent.       *)
C9_FailedDownloadLeavesNoFile ==
    (JustCompleted /\ IsError(Last(out)) /\ Last(lines).event = "download") =>
        download_path(Last(lines).oid) \notin DOMAIN files

(* C10: after a valid handshake, terminate or end of input stops the loop    *)
(* with no further output and exit code 0: the terminate line is the last    *)
(* line read and no event is written for it, and the process ends with       *)
(* every request answered and nothing written after the last complete.       *)
C10_TerminateStopsCleanly ==
    /\ (Len(lines) >= 2 /\ Last(lines) = TerminateLine) =>
            pc = "done" /\ EventsOf(Len(lines)) = {}
    /\ \A i \in 2..Len(lines) - 1 : lines[i] # TerminateLine
    /\ pc = "done" =>
            /\ exitCode = 0
            /\ req = NoReq
            /\ HandshakeOk
            /\ out # <<>>
            /\ Last(out) = Ack \/ IsComplete(Last(out))
            /\ \A i \in 2..Len(lines) : Dispatched(i) => CompletesOf(i) # {}

\* a request was completed, then terminate was read
C10_Witness ==
    /\ pc = "done"
    /\ Len(lines) = 3
    /\ Last(lines) = TerminateLine
    /\ Succeeded(2)

\* the agent has just written the successful complete event of a download
DownloadDone ==
    /\ JustCompleted
    /\ ~IsError(Last(out))
    /\ Last(lines).event = "download"

MissingUpload ==
    /\ req # NoReq
    /\ req.event = "upload"
    /\ Has(req.kwargs, "path")
    /\ Absolute(req.kwargs.path) \notin DOMAIN files

(* C12: an upload whose local path does not exist gets no progress event and *)
(* exactly one complete event, which carries error code 2; and no step taken *)
(* while that request is serviced constructs the backend client, opens a     *)
(* stream or changes the object store or the local files.                    *)
C12_MissingFileUploadTouchesNothing ==
    /\ [](\A i \in 2..Len(lines) :
            ( /\ Accepted(i)
              /\ lines[i].event = "upload"
              /\ Has(lines[i], "path")
              /\ Absolute(lines[i].path) \notin DOMAIN files )
            => /\ ProgressOf(i) = {}
               /\ \A j \in CompletesOf(i) : IsError(out[j]) /\ out[j].error.code = 2
               /\ Finished(i) => Cardinality(CompletesOf(i)) = 1)
    /\ [][MissingUpload =>
            /\ store' = store
            /\ files' = files
            /\ clientCount' = clientCount
            /\ srcOpen' = "none" /\ dstOpen' = "none"]_vars

\* the failed upload followed an upload that had stored an object
C12_Witness ==
    /\ JustCompleted
    /\ Len(lines) = 3
    /\ Last(lines) = UploadLine(<<"a">>, PathG)
    /\ IsError(Last(out))
    /\ Last(out).error.code = 2
    /\ ProgressOf(3) = {}
    /\ DOMAIN store = {join(url, <<"b">>)}

\* the fields the operations name in their signatures
KnownFields == {"path", "size", "action"}

\* the fields of the same request without its unknown fields and with action
Reference(keys) == (keys \cap KnownFields) \cup {"action"}

(* C13: an unknown extra field or a missing action field makes no            *)
(* difference: when an upload or download request reaches the dispatch, the  *)
(* operation accepts its fields exactly when it accepts the fields of the    *)
(* same request without the unknown fields and with action, so that the same *)
(* events follow.                                                            *)
C13_ExtraAndMissingFieldsIgnored ==
    (pc = "dispatch" /\ req.event \in {"upload", "download"}) =>
        ( Binds(agent, req.event, DOMAIN req.kwargs)
          <=> Binds(agent, req.event, Reference(DOMAIN req.kwargs)) )

(* C14: every event written for a request carries that request's oid, and   *)
(* a complete event has one of three shapes.  With path and without error:   *)
(* written for a download, and only when its generator ran to the end.       *)
(* Without path and without error: the same for an upload.  With error, of   *)
(* code 2, and without path: written when, and only when, the operation      *)
(* raised.  Nothing else is written for a request but progress events.       *)
C14_ThreeShapesOfComplete ==
    /\ [](\A j \in 2..Len(out) :
            /\ Dispatched(outReq[j])
            /\ out[j].oid = lines[outReq[j]].oid
            /\ IsProgress(out[j]) \/ IsComplete(out[j])
            /\ IsComplete(out[j]) =>
                 /\ ~(Has(out[j], "path") /\ Has(out[j], "error"))
                 /\ Has(out[j], "path") => lines[outReq[j]].event = "download"
                 /\ (~Has(out[j], "path") /\ ~Has(out[j], "error")) =>
                        lines[outReq[j]].event = "upload"
                 /\ Has(out[j], "error") =>
                        /\ out[j].error.code = 2
                        /\ DOMAIN out[j] = {"event", "oid", "error"})
    /\ [][(Len(out') > Len(out) /\ IsComplete(Last(out'))) =>
            /\ pc \in {"close", "except"}
            /\ Last(out').oid = req.oid
            /\ pc = "except" <=> Has(Last(out'), "error")
            /\ (pc = "close" /\ req.event = "download")
                  <=> Has(Last(out'), "path")
            /\ (pc = "close" /\ req.event = "upload")
                  <=> DOMAIN Last(out') = {"event", "oid"}]_vars

\* an upload succeeded, then a download of an object that is not there failed
C14_Witness ==
    /\ JustCompleted
    /\ Len(lines) = 3
    /\ lines[2].event = "upload"
    /\ \E j \in CompletesOf(2) : DOMAIN out[j] = {"event", "oid"}
    /\ lines[3].event = "download"
    /\ Last(out) = CompleteError(lines[3].oid, "NotFound")

(* C15: what the environment holds for the log destination makes no          *)
(* difference to the protocol: whichever of the log variables are set,       *)
(* configuring the logging ends with the process about to read its first     *)
(* line, still running and with nothing written, as it does when none is     *)
(* set.                                                                      *)
C15_LoggingIndependentOfProtocol ==
    [][pc = "start" =>
          /\ pc' = "handshake"
          /\ exitCode' = -1
          /\ out' = <<>>
          /\ lines' = <<>>]_vars

\* line i is a transfer request that has passed the dispatch
PastDispatch(i) ==
    /\ Accepted(i)
    /\ i = Len(lines) => pc \notin {"loop", "dispatch"} \/ CompletesOf(i) # {}

(* C16: the backend client is constructed at most once in a session, however *)
(* many uploads and downloads use it, and never before an upload or download *)
(* request has been dispatched: a session without such a request constructs  *)
(* none.                                                                     *)
C16_ClientOnceAndLazy ==
    /\ clientCount <= 1
    /\ clientCount > 0 => \E i \in 2..Len(lines) : PastDispatch(i)
    /\ pc \in {"start", "handshake", "create", "ack"} => clientCount = 0

\* two transfers succeeded with one client
C16_Witness ==
    /\ JustCompleted
    /\ Len(lines) = 3
    /\ Succeeded(2)
    /\ Succeeded(3)
    /\ clientCount = 1

(* C17: while a transfer runs, the bytes handed to the destination are the   *)
(* bytes read from the source so far, in order: a prefix of the source.      *)
(* When a progress event with bytesSoFar = t is the latest output, the       *)
(* destination has been handed exactly t bytes, the first t of the source;   *)
(* before the first progress event it has been handed none.                  *)
C17_WrittenBeforeReported ==
    pc \in {"transfer", "close"} =>
        /\ dst = SubSeq(srcData, 1, srcPos)
        /\ total = Len(dst)
        /\ IF Last(outReq) = Len(lines)
           THEN /\ IsProgress(Last(out))
                /\ Last(out).bytesSoFar = Len(dst)
                /\ Last(out).bytesSinceLast <= Len(dst)
                /\ SubSeq(dst, Len(dst) - Last(out).bytesSinceLast + 1, Len(dst))
                     = SubSeq(srcData, srcPos - Last(out).bytesSinceLast + 1, srcPos)
           ELSE dst = <<>>

\* the second progress event of a transfer has just been written
C17_Witness ==
    /\ pc = "transfer"
    /\ IsProgress(Last(out))
    /\ Last(out).bytesSoFar = 3
    /\ Last(out).bytesSinceLast = 1
    /\ dst = <<1, 2, 3>>
    /\ req.event = "upload"

\* line i carries an oid and an event that is no operation of the protocol
UnknownEvent(i) ==
    /\ Dispatched(i)
    /\ lines[i].event \notin {"upload", "download"}

(* C18: a request whose event is none of upload, download and terminate,     *)
(* whether or not the name is an attribute of the transport object, gets no  *)
(* progress event and exactly one complete event, with its oid and error     *)
(* code 2; the process does not abort on it; and no step taken while it is   *)
(* serviced constructs the client, opens a stream or changes the store or    *)
(* the local files.  The agent then reads the next line.                     *)
C18_UnknownEventRejected ==
    /\ [](\A i \in 2..Len(lines) :
            UnknownEvent(i) =>
               /\ ProgressOf(i) = {}
               /\ \A j \in CompletesOf(i) :
                     /\ IsError(out[j])
                     /\ out[j].error.code = 2
                     /\ out[j].oid = lines[i].oid
               /\ Cardinality(CompletesOf(i)) = IF Finished(i) THEN 1 ELSE 0
               /\ i = Len(lines) => pc \in {"dispatch", "except", "loop", "done"})
    /\ [][(req # NoReq /\ req.event \notin {"upload", "download"}) =>
            /\ store' = store
            /\ files' = files
            /\ clientCount' = clientCount
            /\ srcOpen' = "none" /\ dstOpen' = "none"
            /\ pc' \in {"except", "loop"}]_vars

\* both kinds of unknown event were rejected one after the other, before any
\* client was constructed
C18_Witness ==
    /\ pc = "loop"
    /\ Len(lines) = 3
    /\ lines[2] = UnknownLine
    /\ lines[3] = NoSuchEventLine
    /\ \E j \in CompletesOf(2) : out[j] = CompleteError(<<"a">>, "TypeError")
    /\ Last(out) = CompleteError(<<"b">>, "AttributeError")
    /\ clientCount = 0

\* the two processes: the one that is running and the one that is not
Processes == {LocalState, other}

\* the oid of the download request a process has read
OidOf(p) == Last(p.lines).oid

\* the oid holds no path separator
Plain(oid) == \A i \in 1..Len(oid) : oid[i] # "/"

\* nothing but process p itself has touched p's temporary file: while p's
\* destination is open the file holds what p has written, and once p has
\* reported success the file holds p's object
Undisturbed(p) ==
    LET path == download_path(OidOf(p))
    IN  /\ p.pc \in {"transfer", "close"} =>
              path \in DOMAIN files /\ files[path] = p.dst
        /\ (p.pc = "loop" /\ ~IsError(Last(p.out))) =>
              /\ Last(p.out).path = path
              /\ path \in DOMAIN files
              /\ files[path] = store[join(p.url, OidOf(p))]

(* C19: two agent processes in one working directory that download distinct *)
(* oids free of path separators never collide, however their steps          *)
(* interleave: their temporary paths differ, each file holds what its own    *)
(* process has written, and a failure with its cleanup in one process        *)
(* leaves the other's file in place and intact.                              *)
C19_NoCollisionForPlainOids ==
    (\A p \in Processes : Plain(OidOf(p))) =>
        /\ \A p \in Processes : Undisturbed(p)
        /\ \A p \in Processes, q \in Processes :
              OidOf(p) # OidOf(q) => download_path(OidOf(p)) # download_path(OidOf(q))

\* one process failed after a chunk and removed its file; the other's download
\* is complete and its file is there
C19_Witness ==
    /\ pc = "loop"
    /\ IsError(Last(out))
    /\ \E j \in 1..Len(out) : IsProgress(out[j])
    /\ Plain(OidOf(LocalState))
    /\ download_path(OidOf(LocalState)) \notin DOMAIN files
    /\ other.pc = "loop"
    /\ Plain(OidOf(other))
    /\ ~IsError(Last(other.out))
    /\ files[Last(other.out).path] = store[join(other.url, OidOf(other))]

(* C19 as claimed: two agent processes in one working directory that        *)
(* download distinct oids never collide, whatever the oids: the temporary    *)
(* path is an injective function of the oid and no process's file is         *)
(* deleted, truncated or altered by the other.                               *)
C19_NoCollision ==
    /\ \A p \in Processes : Undisturbed(p)
    /\ \A p \in Processes, q \in Processes :
          OidOf(p) # OidOf(q) => download_path(OidOf(p)) # download_path(OidOf(q))

(* C20: with a finite input and calls that all return, the process           *)
(* eventually exits, and when it has exited every upload or download request *)
(* it read has its complete event in the output: every accepted request      *)
(* eventually gets its complete event.  The read loop of a transfer takes at *)
(* least one byte in every turn that stays in the loop, and the first empty  *)
(* read ends it: there is no retry.                                          *)
C20_EveryRequestCompletesAndAgentExits ==
    /\ <>( /\ pc \in {"done", "crashed"}
           /\ \A i \in 2..Len(lines) : Accepted(i) => CompletesOf(i) # {} )
    /\ [][(pc = "transfer" /\ pc' = "transfer") => srcPos' > srcPos]_vars
    /\ [][(pc = "transfer" /\ srcOpen = "ok" /\ srcPos = Len(srcData)) =>
              pc' \in {"close", "except"}]_vars

\* the process has exited after an upload of an empty file, which was
\* completed without a progress event
C20_Witness ==
    /\ pc = "done"
    /\ exitCode = 0
    /\ Len(lines) = 2
    /\ lines[2].event = "upload"
    /\ Succeeded(2)
    /\ ProgressOf(2) = {}
    /\ store[join(url, lines[2].oid)] = <<>>

====
